---- MODULE Spec2Model ----
(***************************************************************************)
(* Partial-credit scoring of tool-calling trajectories (tau-bench).        *)
(*                                                                         *)
(* Two scoring scripts are modelled side by side:                          *)
(*   tau-bench-repo/partial_scoring.py  (extract_tool_calls,               *)
(*       compare_values, calculate_partial_score, process_results_file)    *)
(*   improvements/partial_scoring.py    (extract_tool_calls_from_trajectory,*)
(*       normalize_args, compare_arguments, match_actions_to_tool_calls,   *)
(*       calculate_tool_call_reward, process_file)                         *)
(*                                                                         *)
(* Python floats are modelled as exact reduced fractions [num, den]; the    *)
(* accumulation of calculate_partial_score is also modelled in binary64    *)
(* (F64Add, F64DivInt) where the order of the additions matters.           *)
(* Python values are tagged records; "==" and type() are modelled by       *)
(* PyEq and the kind tag.                                                  *)
(***************************************************************************)
EXTENDS Integers, Sequences, FiniteSets, TLC

VARIABLES
    scenario,          \* which group of functions this behaviour exercises
    done,              \* names of the functions that have already run
    expected, actual,  \* inputs of compare_values / compare_arguments
    cv_result,         \* value returned by compare_values
    ca_result,         \* value returned by compare_arguments
    expected_actions,  \* gold actions given to the matchers
    actual_calls,      \* tool calls given to the matchers
    best_scores,       \* calculate_partial_score: best_score of each expected action
    partial_score,     \* value returned by calculate_partial_score
    matches,           \* value returned by match_actions_to_tool_calls
    tool_call_reward,  \* average computed by calculate_tool_call_reward
    trajectory,        \* list of turns given to the extractors
    tool_calls_A,      \* outcome of extract_tool_calls
    tool_calls_B,      \* outcome of extract_tool_calls_from_trajectory
    data,              \* task records of a results file
    enhanced_results,  \* outcome of process_results_file
    summary,           \* outcome of process_file
    perm_expected,     \* a permutation of expected_actions
    perm_calls,        \* a permutation of actual_calls
    score_in_order,    \* calculate_partial_score(expected_actions, actual_calls)
    score_permuted     \* calculate_partial_score(perm_expected, perm_calls)

compareVars == <<expected, actual, cv_result, ca_result>>
matchVars == <<expected_actions, actual_calls, best_scores, partial_score,
               matches, tool_call_reward>>

extractVars == <<trajectory, tool_calls_A, tool_calls_B>>

batchVars == <<data, enhanced_results, summary>>

orderVars == <<perm_expected, perm_calls, score_in_order, score_permuted>>

vars == <<scenario, done, compareVars, matchVars, extractVars, batchVars, orderVars>>

----------------------------------------------------------------------------
(* Bounds of the model *)

MaxLen == 2        \* longest list value drawn as an input of compare_values
MaxExpected == 2   \* longest list of expected actions
MaxCalls == 2      \* longest list of tool calls given to a matcher
MaxTurns == 2      \* longest trajectory
MaxRecords == 2    \* longest tool_calls list of one turn
MaxTasks == 2      \* longest results file
MaxPermuted == 3   \* longest list of expected actions that is permuted

----------------------------------------------------------------------------
(* Exact arithmetic for the float scores *)

RECURSIVE GCD(_, _)
GCD(a, b) == IF b = 0 THEN a ELSE GCD(b, a % b)

Rat(n, d) == LET g == GCD(n, d) IN [num |-> n \div g, den |-> d \div g]

Zero == [num |-> 0, den |-> 1]
One  == [num |-> 1, den |-> 1]

RAdd(x, y) == Rat(x.num * y.den + y.num * x.den, x.den * y.den)
RMul(x, y) == Rat(x.num * y.num, x.den * y.den)
RDivInt(x, k) == Rat(x.num, x.den * k)
RLess(x, y) == x.num * y.den < y.num * x.den
RMax(x, y) == IF RLess(x, y) THEN y ELSE x

----------------------------------------------------------------------------
(* Python values *)

IntV(i)   == [kind |-> "int", n |-> i]
BoolV(b)  == [kind |-> "bool", n |-> IF b THEN 1 ELSE 0]
StrV(s)   == [kind |-> "str", s |-> s]
NoneV     == [kind |-> "NoneType"]
DictV(m)  == [kind |-> "dict", m |-> m]
ListV(l)  == [kind |-> "list", items |-> l]

EmptyDict == DictV([k \in {} |-> NoneV])
EmptyList == ListV(<<>>)

IsNumber(v) == v.kind \in {"int", "bool"}

\* Python truthiness of a container: "not actual" is true for {} and [].
IsEmpty(v) ==
    CASE v.kind = "dict" -> DOMAIN v.m = {}
      [] v.kind = "list" -> Len(v.items) = 0
      [] OTHER -> FALSE

\* Python "==" on JSON-like values: bool and int compare numerically
\* (True == 1), dicts compare key-wise, lists element-wise.
RECURSIVE PyEq(_, _)
PyEq(a, b) ==
    CASE IsNumber(a) /\ IsNumber(b) -> a.n = b.n
      [] a.kind = "str" /\ b.kind = "str" -> a.s = b.s
      [] a.kind = "NoneType" /\ b.kind = "NoneType" -> TRUE
      [] a.kind = "dict" /\ b.kind = "dict" ->
            /\ DOMAIN a.m = DOMAIN b.m
            /\ \A k \in DOMAIN a.m : PyEq(a.m[k], b.m[k])
      [] a.kind = "list" /\ b.kind = "list" ->
            /\ Len(a.items) = Len(b.items)
            /\ \A i \in 1..Len(a.items) : PyEq(a.items[i], b.items[i])
      [] OTHER -> FALSE

\* Structural kind of a Value: mapping, sequence or scalar.
StructKind(v) ==
    CASE v.kind = "dict" -> "mapping"
      [] v.kind = "list" -> "sequence"
      [] OTHER -> "scalar"

RECURSIVE RSumSet(_, _)
RSumSet(f, S) ==
    IF S = {} THEN Zero
    ELSE LET x == CHOOSE y \in S : TRUE
         IN RAdd(f[x], RSumSet(f, S \ {x}))

RECURSIVE RMaxSet(_, _)
RMaxSet(f, S) ==
    IF S = {} THEN Zero
    ELSE LET x == CHOOSE y \in S : TRUE
         IN RMax(f[x], RMaxSet(f, S \ {x}))

----------------------------------------------------------------------------
(* tau-bench-repo/partial_scoring.py : compare_values *)

RECURSIVE compare_values(_, _)

\* compare_values with the type check giving half credit instead of none.
compare_values_halfcredit(exp, act) ==
    IF PyEq(exp, act) THEN One
    ELSE IF exp.kind # act.kind THEN Rat(1, 2)
    ELSE IF exp.kind = "dict" THEN
        IF IsEmpty(act) THEN Zero
        ELSE IF DOMAIN exp.m = {} THEN One
        ELSE LET hit == DOMAIN exp.m \cap DOMAIN act.m
                 sc  == [k \in hit |-> compare_values(exp.m[k], act.m[k])]
             IN RDivInt(RSumSet(sc, hit), Cardinality(DOMAIN exp.m))
    ELSE IF exp.kind = "list" THEN
        IF IsEmpty(act) THEN (IF IsEmpty(exp) THEN One ELSE Zero)
        ELSE IF IsEmpty(exp) THEN One
        ELSE LET I == 1..Len(exp.items)
                 J == 1..Len(act.items)
                 best == [i \in I |->
                            RMaxSet([j \in J |->
                                compare_values(exp.items[i], act.items[j])], J)]
             IN RDivInt(RSumSet(best, I), Len(exp.items))
    ELSE Zero

compare_values(exp, act) ==
    IF PyEq(exp, act) THEN One                         \* exact match
    ELSE IF exp.kind # act.kind THEN Zero              \* type mismatch
    ELSE IF exp.kind = "dict" THEN
        IF IsEmpty(act) THEN Zero
        ELSE IF DOMAIN exp.m = {} THEN One
        ELSE LET hit == DOMAIN exp.m \cap DOMAIN act.m
                 sc  == [k \in hit |-> compare_values(exp.m[k], act.m[k])]
             IN RDivInt(RSumSet(sc, hit), Cardinality(DOMAIN exp.m))
    ELSE IF exp.kind = "list" THEN
        IF IsEmpty(act) THEN (IF IsEmpty(exp) THEN One ELSE Zero)
        ELSE IF IsEmpty(exp) THEN One
        ELSE LET I == 1..Len(exp.items)
                 J == 1..Len(act.items)
                 best == [i \in I |->
                            RMaxSet([j \in J |->
                                compare_values(exp.items[i], act.items[j])], J)]
             IN RDivInt(RSumSet(best, I), Len(exp.items))
    ELSE Zero                                          \* other types

----------------------------------------------------------------------------
(* improvements/partial_scoring.py : normalize_args, compare_arguments *)

\* str(value) for the non-null, non-bool, non-numeric argument values of the
\* input universe: a str is left alone, {} prints as "{}" and [] as "[]".
PyStrOf(v) ==
    CASE v.kind = "str" -> v
      [] v.kind = "dict" /\ DOMAIN v.m = {} -> StrV("{}")
      [] v.kind = "list" /\ Len(v.items) = 0 -> StrV("[]")

normalize_args(args) ==
    DictV([key \in DOMAIN args.m |->
            LET value == args.m[key] IN
            IF value.kind = "NoneType" THEN NoneV
            ELSE IF value.kind = "bool" THEN value
            ELSE IF value.kind = "int" THEN value
            ELSE PyStrOf(value)])

\* dict.get(key): None when the key is absent
DictGet(d, key) == IF key \in DOMAIN d.m THEN d.m[key] ELSE NoneV

\* compare_arguments counting only the expected keys (extras ignored)
compare_arguments_expected_keys(expected_args, actual_args) ==
    IF IsEmpty(expected_args) /\ IsEmpty(actual_args) THEN One
    ELSE LET expected_norm == normalize_args(expected_args)
             actual_norm   == normalize_args(actual_args)
             all_keys == DOMAIN expected_norm.m
         IN IF all_keys = {} THEN One
            ELSE LET n_match == Cardinality({key \in all_keys :
                        PyEq(DictGet(expected_norm, key), DictGet(actual_norm, key))})
                 IN Rat(n_match, Cardinality(all_keys))

compare_arguments(expected_args, actual_args) ==
    IF IsEmpty(expected_args) /\ IsEmpty(actual_args) THEN One
    ELSE LET expected_norm == normalize_args(expected_args)
             actual_norm   == normalize_args(actual_args)
             all_keys == DOMAIN expected_norm.m \cup DOMAIN actual_norm.m
         IN IF all_keys = {} THEN One
            ELSE LET n_match == Cardinality({key \in all_keys :
                        PyEq(DictGet(expected_norm, key), DictGet(actual_norm, key))})
                 IN Rat(n_match, Cardinality(all_keys))

----------------------------------------------------------------------------
(* tau-bench-repo/partial_scoring.py : calculate_partial_score *)

NameWeight == Rat(2, 5)     \* score += 0.4
ArgWeight  == Rat(3, 5)     \* score += 0.6 * arg_similarity

\* score of one actual call against one expected action (loop body)
call_score(exp_action, call) ==
    IF exp_action.name = call.name
    THEN RAdd(NameWeight,
              RMul(ArgWeight, compare_values(exp_action.kwargs, call.arguments)))
    ELSE Zero

\* best_score of one expected action over the whole list of actual calls
best_score(exp_action, calls) ==
    LET J == 1..Len(calls)
    IN RMaxSet([j \in J |-> call_score(exp_action, calls[j])], J)

all_best_scores(exp_actions, calls) ==
    [i \in 1..Len(exp_actions) |-> best_score(exp_actions[i], calls)]

\* calculate_partial_score returning the total instead of the average
calculate_partial_score_total(exp_actions, calls) ==
    IF Len(exp_actions) = 0
    THEN (IF Len(calls) = 0 THEN One ELSE Zero)
    ELSE LET bs == all_best_scores(exp_actions, calls)
         IN RSumSet(bs, 1..Len(exp_actions))

calculate_partial_score(exp_actions, calls) ==
    IF Len(exp_actions) = 0
    THEN (IF Len(calls) = 0 THEN One ELSE Zero)
    ELSE LET bs == all_best_scores(exp_actions, calls)
         IN RDivInt(RSumSet(bs, 1..Len(exp_actions)), Len(exp_actions))

----------------------------------------------------------------------------
(* improvements/partial_scoring.py : match_actions_to_tool_calls *)

Half == Rat(1, 2)

\* score of one tool call against one gold action (inner loop body)
tool_call_score(gold_action, tool_call) ==
    LET name_match == IF gold_action.name = tool_call.name THEN One ELSE Zero
        args_match == compare_arguments(gold_action.kwargs, tool_call.arguments)
    IN RAdd(RMul(Half, name_match), RMul(Half, args_match))

\* inner loop: scan the tool calls from position idx on, skipping the used
\* ones, keeping the first strictly best one; best_idx 0 stands for "none"
RECURSIVE scan_tool_calls(_, _, _, _, _)
scan_tool_calls(gold_action, tool_calls, used_tool_calls, idx, best) ==
    IF idx > Len(tool_calls) THEN best
    ELSE IF idx \in used_tool_calls
    THEN scan_tool_calls(gold_action, tool_calls, used_tool_calls, idx + 1, best)
    ELSE LET score == tool_call_score(gold_action, tool_calls[idx])
         IN IF RLess(best.best_score, score)
            THEN scan_tool_calls(gold_action, tool_calls, used_tool_calls, idx + 1,
                                 [best_idx |-> idx, best_score |-> score])
            ELSE scan_tool_calls(gold_action, tool_calls, used_tool_calls, idx + 1,
                                 best)

\* outer loop from gold action g on
RECURSIVE match_from(_, _, _, _)
match_from(gold_actions, tool_calls, g, used_tool_calls) ==
    IF g > Len(gold_actions) THEN <<>>
    ELSE LET best == scan_tool_calls(gold_actions[g], tool_calls, used_tool_calls, 1,
                                     [best_idx |-> 0, best_score |-> Zero])
         IN IF best.best_idx # 0
            THEN <<[gold_action |-> gold_actions[g], matched |-> best.best_idx,
                    score |-> best.best_score]>>
                 \o match_from(gold_actions, tool_calls, g + 1,
                               used_tool_calls \cup {best.best_idx})
            ELSE <<[gold_action |-> gold_actions[g], matched |-> 0, score |-> Zero]>>
                 \o match_from(gold_actions, tool_calls, g + 1, used_tool_calls)

match_actions_to_tool_calls(gold_actions, tool_calls) ==
    match_from(gold_actions, tool_calls, 1, {})

\* calculate_tool_call_reward: average score of the matches
average_score(ms) ==
    IF Len(ms) = 0 THEN Zero
    ELSE LET I == 1..Len(ms)
         IN RDivInt(RSumSet([i \in I |-> ms[i].score], I), Len(ms))

----------------------------------------------------------------------------
(* Tool-call extraction *)

\* a key that is absent from a dict
Missing == [kind |-> "missing"]

\* outcome of a call that may raise
Returned(v) == [raised |-> FALSE, value |-> v]
Raised == [raised |-> TRUE, value |-> NoneV]

\* json.loads on the texts of the input universe; anything that is not a str
\* raises TypeError, undecodable text raises JSONDecodeError
json_loads(x) ==
    IF x.kind # "str" THEN Raised
    ELSE CASE x.s = "{}" -> Returned(EmptyDict)
           [] x.s = "{\"k1\": 1}" -> Returned(DictV([k \in {"k1"} |-> IntV(1)]))
           [] x.s = "[1]" -> Returned(ListV(<<IntV(1)>>))
           [] x.s = "1" -> Returned(IntV(1))
           [] x.s = "null" -> Returned(NoneV)
           [] x.s = "{bad" -> Raised

\* Python truthiness of message.get('tool_calls')
Truthy(v) == v.kind = "list" /\ Len(v.items) > 0

RECURSIVE Flatten(_)
Flatten(seqs) == IF Len(seqs) = 0 THEN <<>> ELSE Head(seqs) \o Flatten(Tail(seqs))

\* tau-bench-repo/partial_scoring.py : extract_tool_calls
\* the tool-call records the loops visit
visited_calls_A(traj) ==
    Flatten([t \in 1..Len(traj) |->
                IF Truthy(traj[t].tool_calls) THEN traj[t].tool_calls.items ELSE <<>>])

\* loop body for one record
extract_call_A(call) ==
    LET args_str == IF call.arguments = Missing THEN StrV("{}") ELSE call.arguments
        loaded == json_loads(args_str)
    IN [name |-> call.name,
        arguments |-> IF loaded.raised THEN EmptyDict ELSE loaded.value]

extract_tool_calls(traj) ==
    LET visited == visited_calls_A(traj)
    IN [raised |-> FALSE,
        calls |-> [i \in 1..Len(visited) |-> extract_call_A(visited[i])]]

\* improvements/partial_scoring.py : extract_tool_calls_from_trajectory
visited_calls_B(traj) ==
    Flatten([t \in 1..Len(traj) |->
                IF /\ traj[t].role = "assistant"
                   /\ traj[t].tool_calls # Missing
                   /\ traj[t].tool_calls # NoneV
                THEN traj[t].tool_calls.items ELSE <<>>])

\* loop body for one record: KeyError when "arguments" is absent, and
\* whatever json.loads raises
extract_call_B(tool_call) ==
    IF tool_call.arguments = Missing THEN Raised
    ELSE LET loaded == json_loads(tool_call.arguments)
         IN IF loaded.raised THEN Raised
            ELSE Returned([name |-> tool_call.name, arguments |-> loaded.value])

extract_tool_calls_from_trajectory(traj) ==
    LET visited == visited_calls_B(traj)
    IN IF \E i \in 1..Len(visited) : extract_call_B(visited[i]).raised
       THEN [raised |-> TRUE, calls |-> <<>>]
       ELSE [raised |-> FALSE,
             calls |-> [i \in 1..Len(visited) |-> extract_call_B(visited[i]).value]]

----------------------------------------------------------------------------
(* tau-bench-repo/partial_scoring.py : process_results_file *)

\* loop body for one task: the partial_score it is given, or an exception.
\* "'error' in None" and "None['actions']" raise TypeError, which the
\* "except KeyError" does not catch; an absent key raises KeyError.
\* calculate_partial_score(None, actual) takes the "not expected_actions"
\* branch, as it does for [].
score_task_A(task) ==
    LET info == task.info IN
    IF info = NoneV THEN Raised
    ELSE IF info # Missing /\ info.error THEN Returned(Zero)
    ELSE IF info = Missing THEN Returned(Zero)
    ELSE IF info.task = Missing THEN Returned(Zero)
    ELSE IF info.task = NoneV THEN Raised
    ELSE IF info.task.actions = Missing THEN Returned(Zero)
    ELSE LET exp_actions == IF info.task.actions = NoneV THEN <<>>
                            ELSE info.task.actions.items
             act_calls == extract_tool_calls(task.traj).calls
         IN Returned(calculate_partial_score(exp_actions, act_calls))

process_results_file(tasks) ==
    IF \E i \in 1..Len(tasks) : score_task_A(tasks[i]).raised
    THEN [raised |-> TRUE, tasks |-> <<>>]
    ELSE [raised |-> FALSE,
          tasks |-> [i \in 1..Len(tasks) |->
                        [task |-> tasks[i],
                         partial_score |-> score_task_A(tasks[i]).value]]]

(* improvements/partial_scoring.py : calculate_tool_call_reward, process_file *)

\* dict.get(key) is None: the key is absent or holds null
IsNone(v) == v = Missing \/ v = NoneV

calculate_tool_call_reward(task) ==
    IF \/ IsNone(task.info)
       \/ IsNone(task.info.reward_info)
       \/ IsNone(task.info.reward_info.actions)
    THEN Returned(Zero)
    ELSE LET gold_actions == task.info.reward_info.actions.items
             extracted == extract_tool_calls_from_trajectory(task.traj)
         IN IF extracted.raised THEN Raised
            ELSE Returned(average_score(
                    match_actions_to_tool_calls(gold_actions, extracted.calls)))

process_file(tasks) ==
    IF \E i \in 1..Len(tasks) : calculate_tool_call_reward(tasks[i]).raised
    THEN [raised |-> TRUE, tasks |-> <<>>]
    ELSE [raised |-> FALSE,
          tasks |-> [i \in 1..Len(tasks) |->
                        LET reward == calculate_tool_call_reward(tasks[i]).value
                        IN [task |-> tasks[i],
                            original_reward |-> tasks[i].reward,
                            tool_call_reward |-> reward,
                            partial_reward |->
                                RAdd(RMul(Half, Rat(tasks[i].reward, 1)),
                                     RMul(Half, reward))]]]

----------------------------------------------------------------------------
(* Binary64 arithmetic of the accumulation in calculate_partial_score *)

\* A double x with 1/16 <= x < 16 (or x = 0) is the integer x * 2^56, held as
\* three limbs <<a, b, c>> = a * 2^40 + b * 2^20 + c.
Limb == 1048576

F64Zero == <<0, 0, 0>>
F64One  == <<65536, 0, 0>>
F64_0_4 == <<26214, 419430, 419432>>     \* the double written 0.4
F64_0_6 == <<39321, 629145, 629144>>     \* the double written 0.6

\* carry propagation
F64Norm(a, b, c) ==
    LET b1 == b + (c \div Limb)
    IN <<a + (b1 \div Limb), b1 % Limb, c % Limb>>

\* unit in the last place, in units of 2^-56, of a value with top limb a
F64Ulp(x) ==
    CASE x[1] >= 524288 -> 128
      [] x[1] >= 262144 /\ x[1] < 524288 -> 64
      [] x[1] >= 131072 /\ x[1] < 262144 -> 32
      [] x[1] >= 65536 /\ x[1] < 131072 -> 16
      [] x[1] >= 32768 /\ x[1] < 65536 -> 8
      [] x[1] >= 16384 /\ x[1] < 32768 -> 4
      [] x[1] >= 8192 /\ x[1] < 16384 -> 2
      [] x[1] >= 4096 /\ x[1] < 8192 -> 1
      [] x = F64Zero -> 1

\* round to nearest, ties to even: x plus rem/den units, where the exact
\* value lies rem/den units (0 <= rem < den) above the multiple q * ulp
F64Round(x, n, r) ==
    LET u   == F64Ulp(x)
        low == x[3] % u
        rem == low * n + r
        den == u * n
        odd == (x[3] \div u) % 2 = 1
        up  == 2 * rem > den \/ (2 * rem = den /\ odd)
    IN F64Norm(x[1], x[2], x[3] - low + (IF up THEN u ELSE 0))

\* x + y
F64Add(x, y) == F64Round(F64Norm(x[1] + y[1], x[2] + y[2], x[3] + y[3]), 1, 0)

\* x / n for a small positive integer n
F64DivInt(x, n) ==
    LET qa == x[1] \div n
        t1 == (x[1] % n) * Limb + x[2]
        qb == t1 \div n
        t2 == (t1 % n) * Limb + x[3]
        qc == t2 \div n
    IN F64Round(<<qa, qb, qc>>, n, t2 % n)

F64Less(x, y) ==
    \/ x[1] < y[1]
    \/ x[1] = y[1] /\ x[2] < y[2]
    \/ x[1] = y[1] /\ x[2] = y[2] /\ x[3] < y[3]

F64Max(x, y) == IF F64Less(x, y) THEN y ELSE x

\* 0.6 * arg_similarity for the similarities 0.0, 0.5 and 1.0, which are
\* exact doubles; the products are exact
F64TimesSimilarity(x, sim) ==
    CASE sim = Zero -> F64Zero
      [] sim = One -> x
      [] sim = Rat(1, 2) -> F64DivInt(x, 2)

\* score of one actual call against one expected action, as a double
f64_call_score(exp_action, call) ==
    IF exp_action.name = call.name
    THEN F64Add(F64_0_4,
                F64TimesSimilarity(F64_0_6,
                    compare_values(exp_action.kwargs, call.arguments)))
    ELSE F64Zero

\* the scan keeping the score of the last call instead of the maximum
RECURSIVE f64_best_score_last_wins(_, _, _, _)
f64_best_score_last_wins(exp_action, calls, j, best) ==
    IF j > Len(calls) THEN best
    ELSE f64_best_score_last_wins(exp_action, calls, j + 1,
                                  f64_call_score(exp_action, calls[j]))

\* best_score = max(best_score, score) over the calls from position j on
RECURSIVE f64_best_score(_, _, _, _)
f64_best_score(exp_action, calls, j, best) ==
    IF j > Len(calls) THEN best
    ELSE f64_best_score(exp_action, calls, j + 1,
                        F64Max(best, f64_call_score(exp_action, calls[j])))

\* total_score += best_score over the expected actions from position i on
RECURSIVE f64_total_score(_, _, _, _)
f64_total_score(exp_actions, calls, i, total) ==
    IF i > Len(exp_actions) THEN total
    ELSE f64_total_score(exp_actions, calls, i + 1,
            F64Add(total, f64_best_score(exp_actions[i], calls, 1, F64Zero)))

\* calculate_partial_score in binary64
f64_calculate_partial_score(exp_actions, calls) ==
    IF Len(exp_actions) = 0
    THEN (IF Len(calls) = 0 THEN F64One ELSE F64Zero)
    ELSE F64DivInt(f64_total_score(exp_actions, calls, 1, F64Zero),
                   Len(exp_actions))

----------------------------------------------------------------------------
(* Input universe of the similarity functions *)

Keys == {"k1", "k2"}

Scalars == {IntV(1), IntV(2), BoolV(TRUE), StrV("a"), NoneV}

Leaves == Scalars \cup {EmptyDict, EmptyList}

DictsOver(V) == UNION {{DictV(m) : m \in [K -> V]} : K \in SUBSET Keys}

ListsOver(V) == UNION {{ListV(s) : s \in [1..n -> V]} : n \in 0..MaxLen}

\* depth-1 containers whose members are again put inside containers
Inner == {DictV([k \in {"k1"} |-> IntV(1)]), DictV([k \in {"k1"} |-> EmptyList]),
          ListV(<<IntV(1)>>), ListV(<<EmptyDict>>)}

Values == Leaves \cup DictsOver(Leaves) \cup ListsOver(Leaves)
            \cup {DictV([k \in {"k1"} |-> v]) : v \in Inner}
            \cup {ListV(<<v>>) : v \in Inner}

\* argument dicts as the matchers see them: flat dicts of leaves
ArgDicts == DictsOver(Leaves)

SeqsUpTo(S, n) == UNION {[1..k -> S] : k \in 0..n}

ToolNames == {"a", "b"}

KwargSamples ==
    {EmptyDict,
     DictV([k \in {"k1"} |-> IntV(1)]),
     DictV([k \in {"k1", "k2"} |-> IntV(1)]),
     DictV([k \in {"k1", "k2"} |-> IF k = "k1" THEN IntV(1) ELSE IntV(2)])}

ActionSamples == {[name |-> n, kwargs |-> kw] : n \in ToolNames, kw \in KwargSamples}

CallSamples == {[name |-> n, arguments |-> kw] : n \in ToolNames, kw \in KwargSamples}

\* lists that are permuted: per-action scores 1.0, 0.7, 0.4 and 0.0 occur
OrderActionSamples ==
    {[name |-> "a", kwargs |-> EmptyDict],
     [name |-> "a", kwargs |-> DictV([k \in {"k1"} |-> IntV(1)])],
     [name |-> "b", kwargs |-> DictV([k \in {"k1", "k2"} |-> IntV(1)])],
     [name |-> "b", kwargs |-> EmptyDict]}

OrderCallSamples ==
    {[name |-> "a", arguments |-> EmptyDict],
     [name |-> "b", arguments |-> DictV([k \in {"k1"} |-> IntV(1)])],
     [name |-> "b", arguments |-> DictV([k \in {"k1", "k2"} |-> IntV(1)])]}

Reorderings(n) == {p \in [1..n -> 1..n] : \A i, j \in 1..n : p[i] = p[j] => i = j}

JsonTexts == {"{}", "{\"k1\": 1}", "[1]", "1", "null", "{bad"}

\* the "arguments" field of a tool-call record: absent, a dict, or text
ArgFields == {Missing, DictV([k \in {"k1"} |-> IntV(1)])} \cup {StrV(t) : t \in JsonTexts}

RecordSamples ==
    {[name |-> "a", arguments |-> f] : f \in ArgFields}
        \cup {[name |-> "b", arguments |-> StrV(t)] : t \in {"{}", "{bad"}}

\* the "tool_calls" field of a turn: absent, null, or a list of records
ToolCallsFields == {Missing, NoneV} \cup {ListV(l) : l \in SeqsUpTo(RecordSamples, MaxRecords)}

Roles == {"assistant", "user"}

TurnSamples == {[role |-> r, tool_calls |-> tc] : r \in Roles, tc \in ToolCallsFields}

\* ground truth of a task: the "actions" field, the "task" / "reward_info"
\* entry that holds it, and the "info" dict
GoldAction == [name |-> "a", kwargs |-> DictV([k \in {"k1"} |-> IntV(1)])]

ActionsFields == {Missing, NoneV, ListV(<<>>), ListV(<<GoldAction>>)}

EntryFields == {Missing, NoneV} \cup {[kind |-> "dict", actions |-> a] : a \in ActionsFields}

InfoFields ==
    {Missing, NoneV,
     [kind |-> "dict", error |-> TRUE, task |-> Missing, reward_info |-> Missing]}
        \cup {[kind |-> "dict", error |-> FALSE, task |-> t, reward_info |-> r] :
                 t \in EntryFields, r \in EntryFields}

AssistantTurn(text) ==
    [role |-> "assistant",
     tool_calls |-> ListV(<<[name |-> "a", arguments |-> StrV(text)]>>)]

TrajSamples == {<<>>, <<AssistantTurn("{\"k1\": 1}")>>, <<AssistantTurn("{bad")>>}

TaskSamples ==
    {[info |-> i, traj |-> tr, reward |-> rw] :
        i \in InfoFields, tr \in TrajSamples, rw \in {0, 1}}

----------------------------------------------------------------------------
(* Values of the variables a scenario does not use *)

IdleCompare ==
    /\ expected = NoneV
    /\ actual = NoneV
    /\ cv_result = Zero
    /\ ca_result = Zero

IdleExtract ==
    /\ trajectory = <<>>
    /\ tool_calls_A = [raised |-> FALSE, calls |-> <<>>]
    /\ tool_calls_B = [raised |-> FALSE, calls |-> <<>>]

IdleBatch ==
    /\ data = <<>>
    /\ enhanced_results = [raised |-> FALSE, tasks |-> <<>>]
    /\ summary = [raised |-> FALSE, tasks |-> <<>>]

IdleOrder ==
    /\ perm_expected = <<>>
    /\ perm_calls = <<>>
    /\ score_in_order = F64Zero
    /\ score_permuted = F64Zero

IdleMatch ==
    /\ expected_actions = <<>>
    /\ actual_calls = <<>>
    /\ best_scores = <<>>
    /\ partial_score = Zero
    /\ matches = <<>>
    /\ tool_call_reward = Zero

----------------------------------------------------------------------------
(* Similarity scenario: draw a pair of values, then compare them *)

InitCompare ==
    /\ scenario = "compare"
    /\ done = {}
    /\ expected \in Values
    /\ actual \in Values
    /\ cv_result = Zero
    /\ ca_result = Zero
    /\ IdleMatch
    /\ IdleExtract
    /\ IdleBatch
    /\ IdleOrder

CompareValues ==
    /\ scenario = "compare"
    /\ "compare_values" \notin done
    /\ cv_result' = compare_values(expected, actual)
    /\ done' = done \cup {"compare_values"}
    /\ UNCHANGED <<scenario, expected, actual, ca_result, matchVars, extractVars, batchVars,
                   orderVars>>

\* compare_arguments is only ever called on two argument dicts
CompareArguments ==
    /\ scenario = "compare"
    /\ "compare_arguments" \notin done
    /\ expected \in ArgDicts
    /\ actual \in ArgDicts
    /\ ca_result' = compare_arguments(expected, actual)
    /\ done' = done \cup {"compare_arguments"}
    /\ UNCHANGED <<scenario, expected, actual, cv_result, matchVars, extractVars, batchVars,
                   orderVars>>

NextCompare == CompareValues \/ CompareArguments

SpecCompare == InitCompare /\ [][NextCompare]_vars

----------------------------------------------------------------------------
(* Matching scenario: draw gold actions and tool calls, then score them *)

InitMatch ==
    /\ scenario = "match"
    /\ done = {}
    /\ expected_actions \in SeqsUpTo(ActionSamples, MaxExpected)
    /\ actual_calls \in SeqsUpTo(CallSamples, MaxCalls)
    /\ best_scores = <<>>
    /\ partial_score = Zero
    /\ matches = <<>>
    /\ tool_call_reward = Zero
    /\ IdleCompare
    /\ IdleExtract
    /\ IdleBatch
    /\ IdleOrder

CalculatePartialScore ==
    /\ scenario = "match"
    /\ "calculate_partial_score" \notin done
    /\ best_scores' = all_best_scores(expected_actions, actual_calls)
    /\ partial_score' = calculate_partial_score(expected_actions, actual_calls)
    /\ done' = done \cup {"calculate_partial_score"}
    /\ UNCHANGED <<scenario, expected_actions, actual_calls, matches,
                   tool_call_reward, compareVars, extractVars, batchVars,
                   orderVars>>

\* the matching and averaging steps of calculate_tool_call_reward
MatchAndAverage ==
    /\ scenario = "match"
    /\ "calculate_tool_call_reward" \notin done
    /\ matches' = match_actions_to_tool_calls(expected_actions, actual_calls)
    /\ tool_call_reward' =
          average_score(match_actions_to_tool_calls(expected_actions, actual_calls))
    /\ done' = done \cup {"calculate_tool_call_reward"}
    /\ UNCHANGED <<scenario, expected_actions, actual_calls, best_scores,
                   partial_score, compareVars, extractVars, batchVars,
                   orderVars>>

NextMatch == CalculatePartialScore \/ MatchAndAverage

SpecMatch == InitMatch /\ [][NextMatch]_vars

\* the similarity and the matching scenarios together
SpecScores == (InitCompare \/ InitMatch) /\ [][NextCompare \/ NextMatch]_vars

----------------------------------------------------------------------------
(* Extraction scenario: draw a trajectory, then extract its tool calls *)

InitExtract ==
    /\ scenario = "extract"
    /\ done = {}
    /\ trajectory \in SeqsUpTo(TurnSamples, MaxTurns)
    /\ tool_calls_A = [raised |-> FALSE, calls |-> <<>>]
    /\ tool_calls_B = [raised |-> FALSE, calls |-> <<>>]
    /\ IdleCompare
    /\ IdleMatch
    /\ IdleBatch
    /\ IdleOrder

ExtractToolCalls ==
    /\ scenario = "extract"
    /\ "extract_tool_calls" \notin done
    /\ tool_calls_A' = extract_tool_calls(trajectory)
    /\ done' = done \cup {"extract_tool_calls"}
    /\ UNCHANGED <<scenario, trajectory, tool_calls_B, compareVars, matchVars, batchVars,
                   orderVars>>

ExtractToolCallsFromTrajectory ==
    /\ scenario = "extract"
    /\ "extract_tool_calls_from_trajectory" \notin done
    /\ tool_calls_B' = extract_tool_calls_from_trajectory(trajectory)
    /\ done' = done \cup {"extract_tool_calls_from_trajectory"}
    /\ UNCHANGED <<scenario, trajectory, tool_calls_A, compareVars, matchVars, batchVars,
                   orderVars>>

NextExtract == ExtractToolCalls \/ ExtractToolCallsFromTrajectory

SpecExtract == InitExtract /\ [][NextExtract]_vars

----------------------------------------------------------------------------
(* Batch scenario: draw the tasks of a results file, then process the file *)

InitBatch ==
    /\ scenario = "batch"
    /\ done = {}
    /\ data \in SeqsUpTo(TaskSamples, MaxTasks)
    /\ enhanced_results = [raised |-> FALSE, tasks |-> <<>>]
    /\ summary = [raised |-> FALSE, tasks |-> <<>>]
    /\ IdleCompare
    /\ IdleMatch
    /\ IdleExtract
    /\ IdleOrder

ProcessResultsFile ==
    /\ scenario = "batch"
    /\ "process_results_file" \notin done
    /\ enhanced_results' = process_results_file(data)
    /\ done' = done \cup {"process_results_file"}
    /\ UNCHANGED <<scenario, data, summary, compareVars, matchVars, extractVars,
                   orderVars>>

ProcessFile ==
    /\ scenario = "batch"
    /\ "process_file" \notin done
    /\ summary' = process_file(data)
    /\ done' = done \cup {"process_file"}
    /\ UNCHANGED <<scenario, data, enhanced_results, compareVars, matchVars,
                   extractVars,
                   orderVars>>

NextBatch == ProcessResultsFile \/ ProcessFile

SpecBatch == InitBatch /\ [][NextBatch]_vars

----------------------------------------------------------------------------
(* Order scenario: score two lists, then score a permutation of them *)

InitOrder ==
    /\ scenario = "order"
    /\ done = {}
    /\ expected_actions \in SeqsUpTo(OrderActionSamples, MaxPermuted)
    /\ actual_calls \in SeqsUpTo(OrderCallSamples, MaxCalls)
    /\ best_scores = <<>>
    /\ partial_score = Zero
    /\ matches = <<>>
    /\ tool_call_reward = Zero
    /\ IdleOrder
    /\ IdleCompare
    /\ IdleExtract
    /\ IdleBatch

ScoreInOrder ==
    /\ scenario = "order"
    /\ done = {}
    /\ score_in_order' = f64_calculate_partial_score(expected_actions, actual_calls)
    /\ done' = {"in_order"}
    /\ UNCHANGED <<scenario, perm_expected, perm_calls, score_permuted,
                   compareVars, matchVars, extractVars, batchVars>>

ScorePermuted ==
    /\ scenario = "order"
    /\ done = {"in_order"}
    /\ \E p \in Reorderings(Len(expected_actions)) :
       \E q \in Reorderings(Len(actual_calls)) :
          LET pe == [i \in 1..Len(expected_actions) |-> expected_actions[p[i]]]
              pc == [j \in 1..Len(actual_calls) |-> actual_calls[q[j]]]
          IN /\ perm_expected' = pe
             /\ perm_calls' = pc
             /\ score_permuted' = f64_calculate_partial_score(pe, pc)
    /\ done' = {"in_order", "permuted"}
    /\ UNCHANGED <<scenario, score_in_order, compareVars, matchVars,
                   extractVars, batchVars>>

NextOrder == ScoreInOrder \/ ScorePermuted

SpecOrder == InitOrder /\ [][NextOrder]_vars

----------------------------------------------------------------------------
(* Claims about the similarity functions *)

\* sum over the keys of E of sim(E[k], A[k]) (0 for a key absent from A),
\* divided by the number of keys of E; 1.0 for an empty E
ExpectedKeyMean(E, A, sim(_, _)) ==
    IF DOMAIN E.m = {} THEN One
    ELSE LET hit == DOMAIN E.m \cap DOMAIN A.m
             sc  == [k \in hit |-> sim(E.m[k], A.m[k])]
         IN RDivInt(RSumSet(sc, hit), Cardinality(DOMAIN E.m))

\* similarity of two normalised argument values in compare_arguments
NormalizedEqual(x, y) ==
    IF PyEq(normalize_args(DictV([k \in {"v"} |-> x])).m["v"],
            normalize_args(DictV([k \in {"v"} |-> y])).m["v"])
    THEN One ELSE Zero

\* C5: for mappings E and A the argument similarity is the mean over the keys
\* of E alone (keys only in A are ignored, an empty E scores 1.0), in
\* compare_values and in compare_arguments.
C5_ExtraArgsNotPenalized ==
    /\ ("compare_values" \in done /\ expected.kind = "dict" /\ actual.kind = "dict")
          => cv_result = ExpectedKeyMean(expected, actual, compare_values)
    /\ "compare_arguments" \in done
          => ca_result = ExpectedKeyMean(expected, actual, NormalizedEqual)

\* C6: whenever the structural kinds of expected and actual differ,
\* compare_values returns exactly 0.0; inside two mappings a key whose two
\* values differ in structural kind adds nothing to the sum, and two lists
\* none of whose elements share a structural kind score 0.0.
C6_KindMismatchIsZero ==
    "compare_values" \in done =>
        /\ StructKind(expected) # StructKind(actual) => cv_result = Zero
        /\ (expected.kind = "dict" /\ actual.kind = "dict"
                /\ ~PyEq(expected, actual)
                /\ ~IsEmpty(expected) /\ ~IsEmpty(actual)) =>
              LET same == {k \in DOMAIN expected.m \cap DOMAIN actual.m :
                             StructKind(expected.m[k]) = StructKind(actual.m[k])}
                  sc == [k \in same |-> compare_values(expected.m[k], actual.m[k])]
              IN cv_result = RDivInt(RSumSet(sc, same), Cardinality(DOMAIN expected.m))
        /\ (expected.kind = "list" /\ actual.kind = "list"
                /\ ~IsEmpty(expected) /\ ~IsEmpty(actual)
                /\ \A i \in 1..Len(expected.items) : \A j \in 1..Len(actual.items) :
                      StructKind(expected.items[i]) # StructKind(actual.items[j]))
              => cv_result = Zero

\* a mapping was compared with a sequence or a scalar inside two mappings,
\* and at top level
C6_Witness ==
    /\ "compare_values" \in done
    /\ expected.kind = "dict" /\ actual.kind = "dict"
    /\ \E k \in DOMAIN expected.m \cap DOMAIN actual.m :
          /\ StructKind(expected.m[k]) = "mapping"
          /\ StructKind(actual.m[k]) = "sequence"
          /\ ~IsEmpty(expected.m[k]) /\ ~IsEmpty(actual.m[k])

----------------------------------------------------------------------------
(* Claims about the matchers *)

ScoredA == "calculate_partial_score" \in done
ScoredB == "calculate_tool_call_reward" \in done

\* C1: a candidate whose name differs from the expected action's name scores
\* exactly 0.0 in both matchers, so when no call carries the name of any
\* expected action every per-action score and the task score are 0.0.
C1_WrongToolZeroCredit ==
    LET NoNameShared ==
            /\ Len(expected_actions) > 0
            /\ \A i \in 1..Len(expected_actions) : \A j \in 1..Len(actual_calls) :
                  expected_actions[i].name # actual_calls[j].name
    IN /\ \A i \in 1..Len(expected_actions) : \A j \in 1..Len(actual_calls) :
            expected_actions[i].name # actual_calls[j].name =>
               /\ ScoredA => call_score(expected_actions[i], actual_calls[j]) = Zero
               /\ ScoredB => tool_call_score(expected_actions[i], actual_calls[j]) = Zero
       /\ (ScoredA /\ NoNameShared) =>
             /\ partial_score = Zero
             /\ \A i \in 1..Len(best_scores) : best_scores[i] = Zero
       /\ (ScoredB /\ NoNameShared) =>
             /\ tool_call_reward = Zero
             /\ \A i \in 1..Len(matches) : matches[i].score = Zero

\* C2: no invocation gives credit to two expected actions: the matched
\* invocations of match_actions_to_tool_calls are pairwise distinct, and with
\* a pool of a single invocation at most one expected action has a positive
\* score, in both matchers.
C2_OneToOneMatching ==
    /\ ScoredB =>
          /\ \A i, j \in 1..Len(matches) :
                (i # j /\ matches[i].matched # 0) => matches[i].matched # matches[j].matched
          /\ Len(actual_calls) = 1 =>
                Cardinality({i \in 1..Len(matches) : RLess(Zero, matches[i].score)}) <= 1
    /\ (ScoredA /\ Len(actual_calls) = 1) =>
          Cardinality({i \in 1..Len(best_scores) : RLess(Zero, best_scores[i])}) <= 1

\* C3: with no expected action the task score is 1.0 when there is no
\* invocation either and 0.0 when there is one, in both scorers.
C3_EmptyExpected ==
    Len(expected_actions) = 0 =>
        /\ ScoredA => partial_score = (IF Len(actual_calls) = 0 THEN One ELSE Zero)
        /\ ScoredB => tool_call_reward = (IF Len(actual_calls) = 0 THEN One ELSE Zero)

\* C4: a same-named candidate scores 0.4 + 0.6 * argument similarity in both
\* matchers; one expected action with two argument keys against one same-named
\* call that agrees on exactly one of them gives the task score 0.7, an exact
\* match gives 1.0.
C4_DefaultWeighting ==
    LET Weighted(sim) == RAdd(Rat(2, 5), RMul(Rat(3, 5), sim))
        OneOfTwo ==
            /\ Len(expected_actions) = 1 /\ Len(actual_calls) = 1
            /\ expected_actions[1].name = actual_calls[1].name
            /\ DOMAIN expected_actions[1].kwargs.m = {"k1", "k2"}
            /\ DOMAIN actual_calls[1].arguments.m = {"k1", "k2"}
            /\ Cardinality({k \in {"k1", "k2"} :
                  PyEq(expected_actions[1].kwargs.m[k], actual_calls[1].arguments.m[k])}) = 1
        Exact ==
            /\ Len(expected_actions) = 1 /\ Len(actual_calls) = 1
            /\ expected_actions[1].name = actual_calls[1].name
            /\ expected_actions[1].kwargs = actual_calls[1].arguments
    IN /\ \A i \in 1..Len(expected_actions) : \A j \in 1..Len(actual_calls) :
            expected_actions[i].name = actual_calls[j].name =>
               /\ ScoredA => call_score(expected_actions[i], actual_calls[j]) =
                     Weighted(compare_values(expected_actions[i].kwargs,
                                             actual_calls[j].arguments))
               /\ ScoredB => tool_call_score(expected_actions[i], actual_calls[j]) =
                     Weighted(compare_arguments(expected_actions[i].kwargs,
                                                actual_calls[j].arguments))
       /\ (ScoredA /\ OneOfTwo) => partial_score = Rat(7, 10)
       /\ (ScoredB /\ OneOfTwo) => tool_call_reward = Rat(7, 10)
       /\ (ScoredA /\ Exact) => partial_score = One
       /\ (ScoredB /\ Exact) => tool_call_reward = One

----------------------------------------------------------------------------
(* Claims about the extractors *)

ExtractedA == "extract_tool_calls" \in done
ExtractedB == "extract_tool_calls_from_trajectory" \in done

\* the tool-call records of the assistant turns that carry a non-null list
RelevantRecords(traj) ==
    Flatten([t \in 1..Len(traj) |->
                IF traj[t].role = "assistant" /\ traj[t].tool_calls.kind = "list"
                THEN traj[t].tool_calls.items ELSE <<>>])

Undecodable(field) == field.kind = "str" /\ json_loads(field).raised

\* the arguments an invocation must have, given the record's arguments field
ArgumentsFor(field) ==
    IF field.kind = "dict" THEN field
    ELSE IF field.kind = "str" /\ ~json_loads(field).raised
                               /\ json_loads(field).value.kind = "dict"
    THEN json_loads(field).value
    ELSE EmptyDict

AllAssistant(traj) == \A t \in 1..Len(traj) : traj[t].role = "assistant"

\* C7: neither extractor raises; in a trajectory of assistant turns every
\* tool-call record yields one invocation, in order, and a record whose
\* argument text does not decode yields one with the empty mapping.
C7_MalformedArgumentsNeverAbort ==
    LET recs == RelevantRecords(trajectory)
        Kept(out) ==
            /\ ~out.raised
            /\ AllAssistant(trajectory) =>
                  /\ Len(out.calls) = Len(recs)
                  /\ \A i \in 1..Len(recs) :
                        /\ out.calls[i].name = recs[i].name
                        /\ Undecodable(recs[i].arguments) =>
                              out.calls[i].arguments = EmptyDict
    IN /\ ExtractedA => Kept(tool_calls_A)
       /\ ExtractedB => Kept(tool_calls_B)

\* C8: the arguments of every extracted invocation are the mapping fixed by
\* the record's arguments field: the mapping itself, the mapping its text
\* decodes to, and the empty mapping in every other case.
C8_ArgumentsAlwaysMapping ==
    /\ ExtractedA =>
          \A i \in 1..Len(tool_calls_A.calls) :
             tool_calls_A.calls[i].arguments =
                ArgumentsFor(visited_calls_A(trajectory)[i].arguments)
    /\ ExtractedB =>
          \A i \in 1..Len(tool_calls_B.calls) :
             tool_calls_B.calls[i].arguments =
                ArgumentsFor(visited_calls_B(trajectory)[i].arguments)

\* C9: the extracted invocations are exactly the tool-call records of the
\* assistant turns with a non-null tool-call list, in encounter order.
C9_OnlyAssistantTurnsInOrder ==
    LET recs == RelevantRecords(trajectory)
        Exactly(out) ==
            /\ Len(out.calls) = Len(recs)
            /\ \A i \in 1..Len(recs) : out.calls[i].name = recs[i].name
    IN /\ ExtractedA => Exactly(tool_calls_A)
       /\ (ExtractedB /\ ~tool_calls_B.raised) => Exactly(tool_calls_B)

----------------------------------------------------------------------------
(* Claims about the batch loops *)

\* the expected actions of a task cannot be found under info[entry]
NoGroundTruth(task, entry) ==
    \/ IsNone(task.info)
    \/ IsNone(task.info[entry])
    \/ IsNone(task.info[entry].actions)

\* C10: when a task of the batch has no ground truth, the batch loop does not
\* raise, every task of the input is in the output in input order, and each
\* task without ground truth has score 0.0.  For process_file only batches
\* whose argument texts all decode are considered.
C10_MissingGroundTruthNeverHalts ==
    LET I == 1..Len(data)
        Decodes(task) == ~extract_tool_calls_from_trajectory(task.traj).raised
    IN /\ ("process_results_file" \in done
              /\ (\E i \in I : NoGroundTruth(data[i], "task"))) =>
             /\ ~enhanced_results.raised
             /\ Len(enhanced_results.tasks) = Len(data)
             /\ \A i \in I :
                   /\ enhanced_results.tasks[i].task = data[i]
                   /\ NoGroundTruth(data[i], "task") =>
                         enhanced_results.tasks[i].partial_score = Zero
       /\ ("process_file" \in done
              /\ (\E i \in I : NoGroundTruth(data[i], "reward_info"))
              /\ (\A i \in I : Decodes(data[i]))) =>
             /\ ~summary.raised
             /\ Len(summary.tasks) = Len(data)
             /\ \A i \in I :
                   /\ summary.tasks[i].task = data[i]
                   /\ NoGroundTruth(data[i], "reward_info") =>
                         summary.tasks[i].tool_call_reward = Zero

----------------------------------------------------------------------------
(* Claims about score range and aggregation *)

InUnitInterval(x) == ~RLess(x, Zero) /\ ~RLess(One, x)

RECURSIVE SeqSum(_)
SeqSum(sq) == IF Len(sq) = 0 THEN Zero ELSE RAdd(Head(sq), SeqSum(Tail(sq)))

\* x is the greatest of the scores sc[j], j in J, and 0.0 when J is empty
IsMaxOrZero(x, sc, J) ==
    /\ \A j \in J : ~RLess(x, sc[j])
    /\ IF J = {} THEN x = Zero ELSE \E j \in J : x = sc[j]

\* C11: every per-action score lies in [0,1] and is the greatest candidate
\* score over the candidates considered (0.0 when there is none); for a
\* non-empty expected list the task score is the arithmetic mean of the
\* per-action scores and lies in [0,1]; compare_values returns a value in
\* [0,1].
C11_ScoreRangeAndMean ==
    LET E == 1..Len(expected_actions)
        J == 1..Len(actual_calls)
    IN /\ ScoredA =>
             /\ Len(best_scores) = Len(expected_actions)
             /\ \A i \in E :
                   /\ InUnitInterval(best_scores[i])
                   /\ IsMaxOrZero(best_scores[i],
                         [j \in J |-> call_score(expected_actions[i], actual_calls[j])], J)
             /\ Len(expected_actions) > 0 =>
                   /\ RMul(partial_score, Rat(Len(expected_actions), 1)) = SeqSum(best_scores)
                   /\ InUnitInterval(partial_score)
       /\ ScoredB =>
             /\ Len(matches) = Len(expected_actions)
             /\ \A i \in E :
                   LET taken == {matches[k].matched : k \in 1..(i - 1)}
                       open  == J \ taken
                   IN /\ InUnitInterval(matches[i].score)
                      /\ IsMaxOrZero(matches[i].score,
                            [j \in open |->
                                tool_call_score(expected_actions[i], actual_calls[j])], open)
             /\ Len(expected_actions) > 0 =>
                   /\ RMul(tool_call_reward, Rat(Len(expected_actions), 1)) =
                         SeqSum([i \in E |-> matches[i].score])
                   /\ InUnitInterval(tool_call_reward)
       /\ "compare_values" \in done => InUnitInterval(cv_result)

\* two expected actions were scored with different positive per-action
\* scores by both matchers
C11_Witness ==
    /\ ScoredA /\ ScoredB
    /\ Len(expected_actions) = 2
    /\ best_scores = <<One, Rat(7, 10)>>
    /\ partial_score = Rat(17, 20)
    /\ RLess(Zero, tool_call_reward) /\ RLess(tool_call_reward, One)

----------------------------------------------------------------------------
(* Claims about the order of the lists *)

\* C12 as stated: the task score of calculate_partial_score is the same for
\* every permutation of the actual calls and of the expected actions.
C12_OrderIndependent ==
    "permuted" \in done => score_permuted = score_in_order

\* C12 as amended: every expected action keeps its per-action score under
\* every permutation of both lists; the task score is the same when only the
\* actual calls are permuted and when there are at most two expected actions.
C12_OrderIndependentUpToRounding ==
    "permuted" \in done =>
        LET BestOf(ea, ac) == [i \in 1..Len(ea) |-> f64_best_score(ea[i], ac, 1, F64Zero)]
            orig == BestOf(expected_actions, actual_calls)
            perm == BestOf(perm_expected, perm_calls)
            Count(sq, v) == Cardinality({i \in 1..Len(sq) : sq[i] = v})
        IN /\ \A i \in 1..Len(perm) : Count(perm, perm[i]) = Count(orig, perm[i])
           /\ perm_expected = expected_actions => score_permuted = score_in_order
           /\ Len(expected_actions) <= 2 => score_permuted = score_in_order

\* three expected actions with three different per-action scores were
\* scored in two different orders of both lists, and the sums rounded apart
C12_Witness ==
    /\ "permuted" \in done
    /\ Len(expected_actions) = 3
    /\ perm_expected # expected_actions
    /\ perm_calls # actual_calls
    /\ score_permuted # score_in_order
    /\ Cardinality({f64_best_score(expected_actions[i], actual_calls, 1, F64Zero) :
                       i \in 1..3}) = 3

====
